---- MODULE Spec2Model ----
(***************************************************************************)
(* Model of boost/beast/core/buffer_traits.hpp.                            *)
(*                                                                         *)
(* The header is a set of compile-time metafunctions.  A state of the      *)
(* model is one translation unit: the template argument list TN it uses    *)
(* and, for each alias template, the type the compiler has produced for    *)
(* it so far ("pending" until the alias is instantiated).  The iterator    *)
(* alias exists in two builds of the header, the one selected by           *)
(* BOOST_WORKAROUND(BOOST_MSVC, < 1910) and the standard one; both are     *)
(* instantiated on the same argument so that they can be compared.         *)
(*                                                                         *)
(* A C++ type is a record [base, cv, ref]: the unqualified type, its       *)
(* top-level cv-qualification and its reference kind.                      *)
(***************************************************************************)
EXTENDS Naturals, Sequences

VARIABLES TN, isConst, isMutable, bufType, iterStd, iterMsvc

vars == <<TN, isConst, isMutable, bufType, iterStd, iterMsvc>>

(* Longest template argument list explored. *)
MaxLen == 2

-----------------------------------------------------------------------------
(* The C++ types the header is instantiated with. *)

Primitives == {"const_buffer", "mutable_buffer"}

Vectors == {"vector_const_buffer", "vector_mutable_buffer"}

Bases == Primitives \cup Vectors \cup {"int", "mutable_buffer_array", "mutable_buffer_ptr"}

CvQuals == {"", "const", "volatile", "const volatile"}

RefQuals == {"", "&", "&&"}

(* An array type carries its cv-qualification on the element, so array     *)
(* types are enumerated without a top-level qualifier.                     *)
Types == {t \in [base : Bases, cv : CvQuals, ref : RefQuals] : t.base = "mutable_buffer_array" => t.cv = ""}

Unqualified(b) == [base |-> b, cv |-> "", ref |-> ""]

TypeLists == UNION {[1..n -> Types] : n \in 0..MaxLen}

(* Results of the metafunctions. *)
Pending == "pending"

IllFormed == [k |-> "ill_formed", of |-> "none"]

PendingType == [k |-> "pending", of |-> "none"]

PointerToConst(b) == [k |-> "pointer_to_const", of |-> b]

Iterator(b) == [k |-> "iterator", of |-> b]

ConstIterator(b) == [k |-> "const_iterator", of |-> b]

-----------------------------------------------------------------------------
(* Standard library and Asio facilities the header is written in terms of. *)

remove_reference(T) == [T EXCEPT !.ref = ""]

remove_cv(T) == [T EXCEPT !.cv = ""]

(* std::decay: remove the reference, then array-to-pointer conversion, or  *)
(* else removal of the top-level cv-qualifier.                             *)
decay(T) ==
    LET U == remove_reference(T)
    IN  IF U.base = "mutable_buffer_array"
        THEN Unqualified("mutable_buffer_ptr")
        ELSE remove_cv(U)

is_class(T) == T.ref = "" /\ T.base \in Primitives \cup Vectors

(* The type obtained by dereferencing the begin() of a buffer sequence. *)
value_type(T) ==
    CASE T.base = "const_buffer" -> "const_buffer"
      [] T.base = "mutable_buffer" -> "mutable_buffer"
      [] T.base = "vector_const_buffer" -> "const_buffer"
      [] T.base = "vector_mutable_buffer" -> "mutable_buffer"
      [] OTHER -> "none"

(* mutable_buffer converts to const_buffer, never the reverse. *)
is_convertible(From, To) ==
    From = To \/ (From = "mutable_buffer" /\ To = "const_buffer")

BoolType(b) == IF b THEN "true_type" ELSE "false_type"

(* net::is_const_buffer_sequence<T>: a class type whose elements convert to *)
(* const_buffer.  A reference type is not a class type.                    *)
net_is_const_buffer_sequence(T) ==
    BoolType(is_class(T) /\ is_convertible(value_type(T), "const_buffer"))

(* net::is_mutable_buffer_sequence<T>: a class type whose elements convert *)
(* to mutable_buffer.                                                      *)
net_is_mutable_buffer_sequence(T) ==
    BoolType(is_class(T) /\ is_convertible(value_type(T), "mutable_buffer"))

RECURSIVE mp_all_from(_, _)
mp_all_from(L, i) ==
    IF i > Len(L) THEN "true_type"
    ELSE IF L[i] = "true_type" THEN mp_all_from(L, i + 1)
    ELSE "false_type"

(* mp11::mp_all<T...>: true_type iff every T is true_type. *)
mp_all(L) == mp_all_from(L, 1)

RECURSIVE mp_any_from(_, _)
mp_any_from(L, i) ==
    IF i > Len(L) THEN "false_type"
    ELSE IF L[i] = "true_type" THEN "true_type"
    ELSE mp_any_from(L, i + 1)

add_const(T) ==
    IF T.ref # "" THEN T
    ELSE [T EXCEPT !.cv = IF T.cv \in {"volatile", "const volatile"}
                          THEN "const volatile" ELSE "const"]

(* The type of the expression std::declval<T const&>().  const applied to  *)
(* a reference type is ignored and the references collapse to an lvalue    *)
(* reference.                                                              *)
declval_T_const_ref(T) == [add_const(T) EXCEPT !.ref = "&"]

(* Plausible slip: the const of "T const&" is forgotten. *)
declval_T_ref(T) == [T EXCEPT !.ref = "&"]

(* The return type of net::buffer_sequence_begin applied to an lvalue of   *)
(* type X (X.ref = "&").  The two buffer types yield a pointer to          *)
(* themselves, a container yields c.begin(), which is its const_iterator   *)
(* exactly when the lvalue is const; nothing binds to a volatile lvalue    *)
(* and other types have no begin().                                        *)
buffer_sequence_begin(X) ==
    IF X.cv \in {"volatile", "const volatile"} THEN IllFormed
    ELSE IF X.base \in Primitives THEN PointerToConst(X.base)
    ELSE IF X.base \in Vectors
         THEN IF X.cv = "const" THEN ConstIterator(X.base) ELSE Iterator(X.base)
    ELSE IllFormed

-----------------------------------------------------------------------------
(* The metafunctions of buffer_traits.hpp. *)

(* Plausible slip: the arguments are not decayed. *)
is_const_buffer_sequence_no_decay(L) ==
    mp_all([i \in 1..Len(L) |-> net_is_const_buffer_sequence(L[i])])

(* Plausible slip: mp_any in place of mp_all. *)
is_const_buffer_sequence_any(L) ==
    mp_any_from([i \in 1..Len(L) |-> net_is_const_buffer_sequence(decay(L[i]))], 1)

(* Plausible slip: an empty pack is rejected. *)
is_const_buffer_sequence_nonempty(L) ==
    IF Len(L) = 0 THEN "false_type"
    ELSE mp_all([i \in 1..Len(L) |-> net_is_const_buffer_sequence(decay(L[i]))])

(* is_const_buffer_sequence<TN...>. *)
is_const_buffer_sequence(L) ==
    mp_all([i \in 1..Len(L) |-> net_is_const_buffer_sequence(decay(L[i]))])

(* Plausible slip: mp_any in place of mp_all. *)
is_mutable_buffer_sequence_any(L) ==
    mp_any_from([i \in 1..Len(L) |-> net_is_mutable_buffer_sequence(decay(L[i]))], 1)

(* Plausible slip: the arguments are not decayed. *)
is_mutable_buffer_sequence_no_decay(L) ==
    mp_all([i \in 1..Len(L) |-> net_is_mutable_buffer_sequence(L[i])])

(* Plausible slip: only the first argument of the pack is checked. *)
is_mutable_buffer_sequence_first(L) ==
    IF Len(L) = 0 THEN "true_type"
    ELSE net_is_mutable_buffer_sequence(decay(L[1]))

(* is_mutable_buffer_sequence<TN...>. *)
is_mutable_buffer_sequence(L) ==
    mp_all([i \in 1..Len(L) |-> net_is_mutable_buffer_sequence(decay(L[i]))])

(* Plausible slip: the two arms of std::conditional are exchanged. *)
buffers_type_swapped(L) ==
    IF is_mutable_buffer_sequence(L) = "true_type"
    THEN "const_buffer" ELSE "mutable_buffer"

(* buffers_type<TN...>. *)
buffers_type(L) ==
    IF is_mutable_buffer_sequence(L) = "true_type"
    THEN "mutable_buffer" ELSE "const_buffer"

(* Plausible slip: the primary template hands out a pointer for any type. *)
buffers_iterator_type_helper_pointer(T) ==
    IF T.base \in Vectors THEN buffer_sequence_begin(declval_T_const_ref(T))
    ELSE PointerToConst(T.base)

(* detail::buffers_iterator_type_helper<T>::type: the two explicit         *)
(* specializations, else the primary template.                             *)
buffers_iterator_type_helper(T) ==
    IF T = Unqualified("const_buffer") THEN PointerToConst("const_buffer")
    ELSE IF T = Unqualified("mutable_buffer") THEN PointerToConst("mutable_buffer")
    ELSE buffer_sequence_begin(declval_T_const_ref(T))

(* buffers_iterator_type<T> under BOOST_WORKAROUND(BOOST_MSVC, < 1910). *)
buffers_iterator_type_msvc(T) == buffers_iterator_type_helper(decay(T))

(* Plausible slip: std::declval<T&>() in place of std::declval<T const&>(). *)
buffers_iterator_type_std_non_const(T) == buffer_sequence_begin(declval_T_ref(T))

(* buffers_iterator_type<T> on every other toolchain. *)
buffers_iterator_type_std(T) == buffer_sequence_begin(declval_T_const_ref(T))

-----------------------------------------------------------------------------
(* The translation unit. *)

Init ==
    /\ TN \in TypeLists
    /\ isConst = Pending
    /\ isMutable = Pending
    /\ bufType = Pending
    /\ iterStd = PendingType
    /\ iterMsvc = PendingType

InstantiateIsConst ==
    /\ isConst = Pending
    /\ isConst' = is_const_buffer_sequence(TN)
    /\ UNCHANGED <<TN, isMutable, bufType, iterStd, iterMsvc>>

InstantiateIsMutable ==
    /\ isMutable = Pending
    /\ isMutable' = is_mutable_buffer_sequence(TN)
    /\ UNCHANGED <<TN, isConst, bufType, iterStd, iterMsvc>>

InstantiateBuffersType ==
    /\ bufType = Pending
    /\ bufType' = buffers_type(TN)
    /\ UNCHANGED <<TN, isConst, isMutable, iterStd, iterMsvc>>

(* buffers_iterator_type takes exactly one argument. *)
InstantiateIteratorStd ==
    /\ Len(TN) = 1
    /\ iterStd = PendingType
    /\ iterStd' = buffers_iterator_type_std(TN[1])
    /\ UNCHANGED <<TN, isConst, isMutable, bufType, iterMsvc>>

InstantiateIteratorMsvc ==
    /\ Len(TN) = 1
    /\ iterMsvc = PendingType
    /\ iterMsvc' = buffers_iterator_type_msvc(TN[1])
    /\ UNCHANGED <<TN, isConst, isMutable, bufType, iterStd>>

Next ==
    \/ InstantiateIsConst
    \/ InstantiateIsMutable
    \/ InstantiateBuffersType
    \/ InstantiateIteratorStd
    \/ InstantiateIteratorMsvc

Spec == Init /\ [][Next]_vars

TypeOK ==
    /\ TN \in TypeLists
    /\ isConst \in {Pending, "true_type", "false_type"}
    /\ isMutable \in {Pending, "true_type", "false_type"}
    /\ bufType \in {Pending, "mutable_buffer", "const_buffer"}
    /\ iterStd.k \in {"pending", "ill_formed", "pointer_to_const", "iterator", "const_iterator"}
    /\ iterMsvc.k \in {"pending", "ill_formed", "pointer_to_const", "iterator", "const_iterator"}

-----------------------------------------------------------------------------
(* Vocabulary of the specification, used to state the properties. *)

StripRefCv(T) == [T EXCEPT !.cv = "", !.ref = ""]

(* The Buffer-View an unqualified type yields when iterated; the two       *)
(* Buffer-Views count as one-element sequences of themselves.              *)
ElementView(T) ==
    IF T.ref # "" \/ T.cv # "" THEN "none"
    ELSE IF T.base \in {"const_buffer", "vector_const_buffer"} THEN "Read-Only-View"
    ELSE IF T.base \in {"mutable_buffer", "vector_mutable_buffer"} THEN "Read-Write-View"
    ELSE "none"

ConstantContract(T) == ElementView(T) \in {"Read-Only-View", "Read-Write-View"}

MutableContract(T) == ElementView(T) = "Read-Write-View"

ConstantOnly(T) == ConstantContract(T) /\ ~MutableContract(T)

Qualified(T) == T.cv # "" \/ T.ref # ""

Args == 1..Len(TN)

StrippedTN == [i \in Args |-> StripRefCv(TN[i])]

Resolved(R) == R.k \notin {"pending", "ill_formed"}

(* A type that is itself a container of Buffer-Views: an object type on    *)
(* whose constant instance begin() can be called.                          *)
GenuineSequence(T) == T.ref = "" /\ T.cv \in {"", "const"} /\ T.base \in Vectors

-----------------------------------------------------------------------------
(* C1: IsConstantSequence(T1..Tn) is true exactly when every Ti, stripped  *)
(* of reference and cv qualification, satisfies the Constant-Buffer-       *)
(* Sequence contract.                                                      *)
C1_ConstIsAllOf ==
    isConst # Pending =>
        (isConst = "true_type" <=> \A i \in Args : ConstantContract(StripRefCv(TN[i])))

C1_Witness ==
    /\ Len(TN) = 2
    /\ isConst = "true_type"
    /\ Qualified(TN[1])
    /\ TN[1].base # TN[2].base

(* C2: IsMutableSequence(T1..Tn) is true exactly when every Ti satisfies   *)
(* the Mutable-Buffer-Sequence contract.                                   *)
C2_MutableIsAllOf ==
    isMutable # Pending =>
        (isMutable = "true_type" <=> \A i \in Args : MutableContract(StripRefCv(TN[i])))

C2_Witness ==
    /\ Len(TN) = 2
    /\ isMutable = "false_type"
    /\ MutableContract(StripRefCv(TN[1]))
    /\ ~MutableContract(StripRefCv(TN[2]))

(* C3: a list classified Mutable is also classified Constant. *)
C3_Monotonic ==
    (isMutable = "true_type" /\ isConst # Pending) => isConst = "true_type"

C3_Witness ==
    /\ Len(TN) = 2
    /\ isMutable = "true_type"
    /\ isConst = "true_type"

(* C4: for the empty list both predicates are true. *)
C4_EmptyIsTrue ==
    Len(TN) = 0 =>
        /\ isConst \in {Pending, "true_type"}
        /\ isMutable \in {Pending, "true_type"}

C4_Witness ==
    /\ Len(TN) = 0
    /\ isConst = "true_type"
    /\ isMutable = "true_type"

(* C5: buffers_type is mutable_buffer when IsMutableSequence holds for the *)
(* list and const_buffer otherwise; the empty list and a single Mutable    *)
(* type give mutable_buffer, a single Constant-only type const_buffer.     *)
C5_BuffersType ==
    bufType # Pending =>
        /\ bufType \in {"mutable_buffer", "const_buffer"}
        /\ isMutable # Pending => (bufType = "mutable_buffer" <=> isMutable = "true_type")
        /\ Len(TN) = 0 => bufType = "mutable_buffer"
        /\ (Len(TN) = 1 /\ ConstantOnly(StripRefCv(TN[1]))) => bufType = "const_buffer"
        /\ (Len(TN) = 1 /\ MutableContract(StripRefCv(TN[1]))) => bufType = "mutable_buffer"

C5_Witness ==
    /\ Len(TN) = 1
    /\ ConstantOnly(StripRefCv(TN[1]))
    /\ isMutable = "false_type"
    /\ bufType = "const_buffer"

(* C6: a list with a Constant-only member is never Mutable, and is         *)
(* Constant whenever all of its members are at least Constant.             *)
C6_ConstantOnlyMember ==
    (\E i \in Args : ConstantOnly(StripRefCv(TN[i]))) =>
        /\ isMutable \in {Pending, "false_type"}
        /\ (\A i \in Args : ConstantContract(StripRefCv(TN[i])))
               => isConst \in {Pending, "true_type"}

C6_Witness ==
    /\ Len(TN) = 2
    /\ MutableContract(StripRefCv(TN[1]))
    /\ ConstantOnly(StripRefCv(TN[2]))
    /\ isMutable = "false_type"
    /\ isConst = "true_type"

(* C7: the fallback path maps each Buffer-View to a pointer to constant    *)
(* Buffer-View, the primary path gives the return type of begin, and       *)
(* wherever both paths resolve they give the same type.                    *)
C7_PathsAgree ==
    Len(TN) = 1 =>
        /\ (TN[1].base \in Primitives /\ Resolved(iterMsvc))
               => iterMsvc = PointerToConst(TN[1].base)
        /\ (TN[1].base \in Primitives /\ Resolved(iterStd))
               => iterStd = PointerToConst(TN[1].base)
        /\ (Resolved(iterStd) /\ Resolved(iterMsvc)) => iterStd = iterMsvc

(* C8: for a type that is itself a container of Buffer-Views both paths    *)
(* give the type begin() returns on a constant instance, never a pointer.  *)
C8_SequenceIterator ==
    (Len(TN) = 1 /\ GenuineSequence(TN[1])) =>
        /\ iterStd \in {PendingType, ConstIterator(TN[1].base)}
        /\ iterMsvc \in {PendingType, ConstIterator(TN[1].base)}

C8_Witness ==
    /\ Len(TN) = 1
    /\ TN[1] = Unqualified("vector_mutable_buffer")
    /\ iterStd = ConstIterator("vector_mutable_buffer")
    /\ iterMsvc = ConstIterator("vector_mutable_buffer")

C10_QualificationInvariant ==
    /\ isConst # Pending => isConst = is_const_buffer_sequence(StrippedTN)
    /\ isMutable # Pending => isMutable = is_mutable_buffer_sequence(StrippedTN)
    /\ bufType # Pending => bufType = buffers_type(StrippedTN)

C10_Witness ==
    /\ Len(TN) = 2
    /\ TN[1].ref = "&" /\ TN[1].cv = "const"
    /\ TN[2].ref = "&&" /\ TN[2].cv = "volatile"
    /\ isConst = "true_type"
    /\ isMutable = "true_type"
    /\ bufType = "mutable_buffer"

====
